---- MODULE Spec2Model ----
(***************************************************************************)
(* Model of Lab_3/train.ipynb: the beam-search decoder of DecoderRNN, the   *)
(* Vocabulary helper, the FlickrDataset constructor and the tensor layout   *)
(* of the training loss.                                                    *)
(*                                                                          *)
(* Scores are integers: a log-probability is a negative integer (a          *)
(* quantised log-probability), a cumulative score is a sum of them.         *)
(***************************************************************************)
EXTENDS Integers, Sequences, FiniteSets, TLC

VARIABLES
    lm,        \* the decoder: the log_softmax row it outputs after each input
    pc,        \* position of beam_search: "idle", "loop", "exit", "done", or
               \* "raised" once self.lstm has raised RuntimeError
    greedy,    \* the search was started by generate_caption with beam=False
    beam,      \* beam_search argument beam
    max_len,   \* beam_search argument max_len
    it,        \* iterations of `for _ in range(max_len)` executed so far
    broke,     \* the loop was left by `break`
    seqs,      \* list of (sc, seq, st, inp)
    parents,   \* seqs as the last iteration found it (the list line 182 walks)
    finished,  \* list of (sc, seq)
    cand,      \* cand of the last iteration
    result     \* the returned token list

beamVars == <<lm, pc, greedy, beam, max_len, it, broke, seqs, parents, finished, cand, result>>

VARIABLES
    freq_threshold,  \* Vocabulary.freq_threshold
    stoi,            \* Vocabulary.stoi (the empty function while no Vocabulary exists)
    itos,            \* Vocabulary.itos
    vpc,             \* position of Vocabulary.build: "idle" or "count"
    freqs,           \* the Counter of build, as (tok, n) pairs in insertion order
    nsents,          \* sentences of sents counted by the running build
    nbuilds,         \* build calls made
    buildLimit,      \* build calls considered
    numText,         \* argument of the last numericalize call
    numOut,          \* its result
    numCalled,       \* numericalize has been called
    numRaised        \* the last numericalize call raised KeyError

vocabVars ==
    <<freq_threshold, stoi, itos, vpc, freqs, nsents, nbuilds, buildLimit,
      numText, numOut, numCalled, numRaised>>

VARIABLES
    fsDir,     \* os.path.isdir(img_dir)
    fsFile,    \* os.path.isfile(captions_file)
    fsLines,   \* the lines of the captions file
    dsState,   \* "new", "ok" or "raised": the constructor's outcome
    dsErr,     \* the exception raised, "" if none
    dsTrace,   \* the calls FlickrDataset.__init__ made, in order
    dsData,    \* self.data
    dsHasData, \* self.data was assigned
    dsHasVocab \* self.vocab was assigned

dsVars == <<fsDir, fsFile, fsLines, dsState, dsErr, dsTrace, dsData, dsHasData, dsHasVocab>>

VARIABLES
    batch,     \* the caption tensors of one batch (cap_idx of __getitem__)
    caps,      \* caps of the training loop, [b][t]
    outputs,   \* dec(feats, caps.t()), [t][b]
    lossPairs, \* the (logit row, target) pairs the loss is computed over
    trained    \* the training step has run

trainVars == <<batch, caps, outputs, lossPairs, trained>>

vars == <<beamVars, vocabVars, dsVars, trainVars>>

----------------------------------------------------------------------------
(* Bounds *)

MaxBeam == 2
MaxLen == 3
LogProbGap == 2
MaxTextLen == 3
MaxSents == 1
MaxBuilds == 2
MaxThreshold == 2
MaxLineLen == 3
MaxLines == 1
MaxBatch == 2
MaxWords == 2

(* Program constants: the indices of the special tokens *)
PAD == 0
SOS == 1
EOS == 2
UNK == 3

\* The output tokens of the smallest decoder that can emit <EOS>
\* (DecoderRNN(embed, hidden, vocab=3)).
Tokens == {PAD, SOS, EOS}

\* Quantised log-probabilities a row may hold.
LogProbs == {0 - 1, 0 - 1 - LogProbGap}

\* The log_softmax rows over Tokens: every row in which some token has the
\* upper level (the probabilities of a row sum to one, so they are not all
\* small); the constant row is the uniform distribution.
Rows == { r \in [Tokens -> LogProbs] : \E a \in Tokens : r[a] = 0 - 1 }

\* feats.unsqueeze(0): the image feature fed as the first LSTM input.
FEATS == 0 - 1

\* The inputs the LSTM is ever fed: the image feature and the embeddings of
\* the tokens that do not end a hypothesis.
Inputs == {FEATS} \cup (Tokens \ {EOS})

\* The decoders considered: those whose output row is decided by the last
\* input alone, every row being possible after every input.
Decoders == [Inputs -> Rows]

----------------------------------------------------------------------------
(* Helpers of beam_search *)

\* The rank of an LSTM input: feats.unsqueeze(0) of the (1, E) feature is
\* (1, 1, E); self.embed(idx[0,k]).unsqueeze(0) is (1, E), idx[0,k] having
\* no dimension.
InpDim(inp) == IF inp = FEATS THEN 3 ELSE 2

\* The rank of h_n and c_n of an LSTM state: that of the input of the call
\* that returned it (a state is the sequence of inputs consumed).
StateDim(st) == InpDim(st[Len(st)])

\* self.lstm(inp, st) raises RuntimeError: nn.LSTM takes a 2-D input as
\* unbatched and a 3-D input as batched, and requires the rank of a given
\* state to agree (st = None, the empty sequence, is always accepted).
LstmRaises(inp, st) == st # <<>> /\ InpDim(inp) # StateDim(st)

\* self.lstm(inp, st) when it does not raise: the new state is the sequence
\* of inputs consumed so far.
Lstm(inp, st) == Append(st, inp)

\* torch.log_softmax(self.fc(h.squeeze(0)), dim=-1) for the state ns.
LogSoftmax(dec, ns) == dec[ns[Len(ns)]]

\* `seq and seq[-1]==vocab.stoi['<EOS>']`
EndsInEos(seq) == seq # <<>> /\ seq[Len(seq)] = EOS

\* logp.topk(beam): every result torch may return. The k indices are
\* distinct, ordered by non-increasing value, and no index left out has a
\* larger value than one taken; the order among equal values is not
\* specified.
TopK(row, k) ==
    { idx \in [1..k -> Tokens] :
        /\ \A a, b \in 1..k : a < b => idx[a] # idx[b] /\ row[idx[a]] >= row[idx[b]]
        /\ \A t \in Tokens : (\A a \in 1..k : idx[a] # t) =>
               \A a \in 1..k : row[t] <= row[idx[a]] }

\* The beam candidates one live hypothesis contributes (lines 185-189).
Expand(h, row, idx, k) ==
    [ j \in 1..k |->
        [sc  |-> h.sc + row[idx[j]],
         seq |-> Append(h.seq, idx[j]),
         st  |-> Lstm(h.inp, h.st),
         inp |-> idx[j]] ]

\* The topk results of one iteration: one per element of ss, in order (the
\* empty tuple for a hypothesis that is not expanded).
RECURSIVE TopKChoices(_, _, _)
TopKChoices(dec, ss, k) ==
    IF ss = <<>> THEN { <<>> }
    ELSE LET h == Head(ss)
             here == IF EndsInEos(h.seq) THEN { <<>> }
                     ELSE TopK(LogSoftmax(dec, Lstm(h.inp, h.st)), k)
         IN { <<i>> \o r : i \in here, r \in TopKChoices(dec, Tail(ss), k) }

\* The inner `for sc,seq,st,inp in seqs` loop: cand after it. idxs[j] is the
\* topk result for ss[j].
RECURSIVE Candidates(_, _, _, _)
Candidates(dec, ss, idxs, k) ==
    IF ss = <<>> THEN <<>>
    ELSE LET h == Head(ss) IN
         IF EndsInEos(h.seq) THEN Candidates(dec, Tail(ss), Tail(idxs), k)
         ELSE Expand(h, LogSoftmax(dec, Lstm(h.inp, h.st)), Head(idxs), k)
                  \o Candidates(dec, Tail(ss), Tail(idxs), k)

\* Mutant of MoveFinished: an ended hypothesis is skipped but not recorded.
MoveFinished_Drop(fin, ss) == fin

\* The inner loop's `finished.append((sc,seq)); continue`: finished after it.
RECURSIVE MoveFinished(_, _)
MoveFinished(fin, ss) ==
    IF ss = <<>> THEN fin
    ELSE LET h == Head(ss) IN
         IF EndsInEos(h.seq)
         THEN MoveFinished(Append(fin, [sc |-> h.sc, seq |-> h.seq]), Tail(ss))
         ELSE MoveFinished(fin, Tail(ss))

\* The hypotheses of ss on which line 185 raises: those that are expanded
\* and whose self.lstm call raises.
Raising(ss) ==
    { j \in 1..Len(ss) : ~EndsInEos(ss[j].seq) /\ LstmRaises(ss[j].inp, ss[j].st) }

\* The hypotheses the inner loop has dealt with when line 185 raises: those
\* before the first one on which it raises.
BeforeRaise(ss) ==
    SubSeq(ss, 1, (CHOOSE j \in Raising(ss) : \A i \in Raising(ss) : j <= i) - 1)

\* Index of the first element of c with the largest score.
FirstMaxIdx(c) ==
    CHOOSE i \in 1..Len(c) :
        /\ \A j \in 1..Len(c) : c[j].sc <= c[i].sc
        /\ \A j \in 1..(i - 1) : c[j].sc < c[i].sc

RemoveAt(c, i) == SubSeq(c, 1, i - 1) \o SubSeq(c, i + 1, Len(c))

\* sorted(cand, key=lambda t:t[0], reverse=True): stable, so equal scores
\* keep their order in cand.
RECURSIVE SortedByScore(_)
SortedByScore(c) ==
    IF c = <<>> THEN <<>>
    ELSE LET m == FirstMaxIdx(c) IN <<c[m]>> \o SortedByScore(RemoveAt(c, m))

\* [:beam]
Truncate(c, k) == SubSeq(c, 1, IF Len(c) < k THEN Len(c) ELSE k)

\* `if not seqs: break`
ShouldBreak(ss) == ss = <<>>

\* finished += [(sc,seq) for sc,seq,_,_ in seqs]
FinalPool(fin, ss) == fin \o [ j \in 1..Len(ss) |-> [sc |-> ss[j].sc, seq |-> ss[j].seq] ]

\* max(finished, key=lambda t:t[0])[1]: the first element of largest score.
MaxByScore(pool) == pool[FirstMaxIdx(pool)].seq

\* generate_caption: the width passed to beam_search.
GenerateCaptionWidth(useBeam, beam_size) == IF useBeam THEN beam_size ELSE 1

----------------------------------------------------------------------------
(* Vocabulary: strings are sequences of characters *)

PadTok == <<"<", "P", "A", "D", ">">>
SosTok == <<"<", "S", "O", "S", ">">>
EosTok == <<"<", "E", "O", "S", ">">>
UnkTok == <<"<", "U", "N", "K", ">">>

\* The characters of the texts considered.
Chars == {"a", "B", " "}

\* The texts of at most n characters over the set cs.
TextsOver(cs, n) == UNION { [1..k -> cs] : k \in 0..n }

Texts == TextsOver(Chars, MaxTextLen)

\* Vocabulary.__init__: itos and stoi.
InitItos == [i \in {PAD, SOS, EOS, UNK} |->
                CASE i = PAD -> PadTok [] i = SOS -> SosTok [] i = EOS -> EosTok [] i = UNK -> UnkTok]
InitStoi == [t \in {InitItos[i] : i \in DOMAIN InitItos} |->
                CHOOSE i \in DOMAIN InitItos : InitItos[i] = t]

\* str.lower, character by character.
LowerChar(c) == IF c = "A" THEN "a" ELSE IF c = "B" THEN "b" ELSE c
Lower(text) == [i \in 1..Len(text) |-> LowerChar(text[i])]

IsSpace(c) == c \in {" ", "\t"}

\* str.strip(): leading and trailing whitespace removed.
RECURSIVE LStrip(_)
LStrip(text) ==
    IF text # <<>> /\ IsSpace(Head(text)) THEN LStrip(Tail(text)) ELSE text
RECURSIVE RStrip(_)
RStrip(text) ==
    IF text # <<>> /\ IsSpace(text[Len(text)])
    THEN RStrip(SubSeq(text, 1, Len(text) - 1)) ELSE text
Strip(text) == RStrip(LStrip(text))

\* str.split(): the maximal runs of non-whitespace characters, in order.
\* cur is the run being read.
RECURSIVE SplitFrom(_, _)
SplitFrom(text, cur) ==
    IF text = <<>> THEN (IF cur = <<>> THEN <<>> ELSE <<cur>>)
    ELSE IF IsSpace(Head(text))
         THEN (IF cur = <<>> THEN <<>> ELSE <<cur>>) \o SplitFrom(Tail(text), <<>>)
         ELSE SplitFrom(Tail(text), Append(cur, Head(text)))
Split(text) == SplitFrom(text, <<>>)

\* Mutant of Tokenize: the text is not lowercased.
Tokenize_NoLower(text) == Split(Strip(text))

\* Vocabulary.tokenize
Tokenize(text) == Split(Strip(Lower(text)))

\* Counter.update(tokens) for one token: its count is incremented, a new
\* token is added last.
CounterAdd(fr, tok) ==
    IF \E i \in 1..Len(fr) : fr[i].tok = tok
    THEN [i \in 1..Len(fr) |-> IF fr[i].tok = tok THEN [tok |-> tok, n |-> fr[i].n + 1] ELSE fr[i]]
    ELSE Append(fr, [tok |-> tok, n |-> 1])

\* freqs.update(self.tokenize(s))
RECURSIVE CounterUpdate(_, _)
CounterUpdate(fr, toks) ==
    IF toks = <<>> THEN fr ELSE CounterUpdate(CounterAdd(fr, Head(toks)), Tail(toks))

\* `for s in sents: freqs.update(self.tokenize(s))`
RECURSIVE CountAll(_, _)
CountAll(fr, sents) ==
    IF sents = <<>> THEN fr
    ELSE CountAll(CounterUpdate(fr, Tokenize(Head(sents))), Tail(sents))

\* `for tok,f in freqs.items()` from index idx on: the maps after it.
RECURSIVE AssignFrom(_, _, _, _, _)
AssignFrom(st, io, thr, fr, idx) ==
    IF fr = <<>> THEN [stoi |-> st, itos |-> io]
    ELSE LET tok == Head(fr).tok IN
         IF Head(fr).n >= thr
         THEN AssignFrom([x \in DOMAIN st \cup {tok} |-> IF x = tok THEN idx ELSE st[x]],
                         [i \in DOMAIN io \cup {idx} |-> IF i = idx THEN tok ELSE io[i]],
                         thr, Tail(fr), idx + 1)
         ELSE AssignFrom(st, io, thr, Tail(fr), idx)

\* The second half of build: `idx=4` and the loop over freqs.
Assign(st, io, thr, fr) == AssignFrom(st, io, thr, fr, 4)

\* Vocabulary.build(sents) as a whole.
Build(st, io, thr, sents) == Assign(st, io, thr, CountAll(<<>>, sents))

\* Vocabulary.numericalize raises KeyError: self.stoi['<UNK>'] is evaluated
\* for every token.
NumericalizeRaises(st, text) == Tokenize(text) # <<>> /\ UnkTok \notin DOMAIN st

\* Vocabulary.numericalize: the list it returns.
Numericalize(st, text) ==
    [k \in 1..Len(Tokenize(text)) |->
        IF Tokenize(text)[k] \in DOMAIN st THEN st[Tokenize(text)[k]] ELSE st[UnkTok]]

----------------------------------------------------------------------------
(* FlickrDataset *)

\* The characters of the lines of the captions file (without the newline).
LineChars == {"a", " ", "\t"}

Lines == TextsOver(LineChars, MaxLineLen)

Files == UNION { [1..n -> Lines] : n \in 0..MaxLines }

\* str.split('\t'): the pieces between the tabs, empty ones included. cur is
\* the piece being read.
RECURSIVE SplitTabFrom(_, _)
SplitTabFrom(text, cur) ==
    IF text = <<>> THEN <<cur>>
    ELSE IF Head(text) = "\t" THEN <<cur>> \o SplitTabFrom(Tail(text), <<>>)
         ELSE SplitTabFrom(Tail(text), Append(cur, Head(text)))
SplitTab(text) == SplitTabFrom(text, <<>>)

HasTab(ln) == \E i \in 1..Len(ln) : ln[i] = "\t"

\* [ln.strip().split('\t') for ln in f if '\t' in ln]
RECURSIVE ParseLines(_)
ParseLines(lines) ==
    IF lines = <<>> THEN <<>>
    ELSE (IF HasTab(Head(lines)) THEN << SplitTab(Strip(Head(lines))) >> ELSE <<>>)
             \o ParseLines(Tail(lines))

\* `[c for _,c in self.data]` raises ValueError unless every row has two fields.
UnpackRaises(data) == \E i \in 1..Len(data) : Len(data[i]) # 2

\* [c for _,c in self.data]
Captions(data) == [i \in 1..Len(data) |-> data[i][2]]

\* Mutant of AssertIsDir: the image folder is not checked.
AssertIsDir_Skipped(isdir) == TRUE

\* `assert os.path.isdir(img_dir)` passes.
AssertIsDir(isdir) == isdir

\* `assert os.path.isfile(captions_file)` passes.
AssertIsFile(isfile) == isfile

\* FlickrDataset.__init__: the calls made, the exception raised and the
\* attributes assigned.
DatasetInit(isdir, isfile, lines, thr) ==
    LET none == [err |-> "", trace |-> <<>>, data |-> <<>>, hasData |-> FALSE,
                 hasVocab |-> FALSE, stoi |-> <<>>, itos |-> <<>>]
    IN
    IF ~AssertIsDir(isdir)
    THEN [none EXCEPT !.err = "AssertionError", !.trace = <<"isdir">>]
    ELSE IF ~AssertIsFile(isfile)
    THEN [none EXCEPT !.err = "AssertionError", !.trace = <<"isdir", "isfile">>]
    ELSE IF ~isfile
    THEN [none EXCEPT !.err = "FileNotFoundError", !.trace = <<"isdir", "isfile", "open">>]
    ELSE LET data == ParseLines(lines)
             read == [none EXCEPT !.data = data, !.hasData = TRUE, !.hasVocab = TRUE]
         IN IF UnpackRaises(data)
            THEN [read EXCEPT !.err = "ValueError",
                              !.trace = <<"isdir", "isfile", "open", "Vocabulary">>,
                              !.stoi = InitStoi, !.itos = InitItos]
            ELSE LET v == Build(InitStoi, InitItos, thr, Captions(data))
                 IN [read EXCEPT !.trace = <<"isdir", "isfile", "open", "Vocabulary", "build">>,
                                 !.stoi = v.stoi, !.itos = v.itos]

----------------------------------------------------------------------------
(* The training step: tensors are sequences, indexed from 1 *)

\* The word indices a caption may hold: <UNK> and the first built index.
WordIds == {UNK, 4}

\* cap_idx of __getitem__: <SOS>, the numericalized caption, <EOS>.
CaptionTensors ==
    { <<SOS>> \o w \o <<EOS>> : w \in UNION { [1..n -> WordIds] : n \in 0..MaxWords } }

Batches == UNION { [1..n -> CaptionTensors] : n \in 1..MaxBatch }

\* The longest caption of the batch.
MaxLength(b) == CHOOSE n \in { Len(b[i]) : i \in 1..Len(b) } : \A i \in 1..Len(b) : Len(b[i]) <= n

\* pad_sequence(..., batch_first=True, padding_value=pad): [b][t].
PadSequence(b, pad) ==
    [i \in 1..Len(b) |-> [t \in 1..MaxLength(b) |-> IF t <= Len(b[i]) THEN b[i][t] ELSE pad]]

\* caps.t() of a [b][t] tensor: [t][b].
Transpose(m) == [t \in 1..Len(m[1]) |-> [i \in 1..Len(m) |-> m[i][t]]]

\* The image feature of batch item i (a row of feats).
FeatOf(i) == 0 - i

\* DecoderRNN.forward(feats, caps) for time-major caps: the inputs are
\* feats followed by caps[:-1]; the output for (t, i) is decided by the
\* inputs of item i up to time t, which stand for it here.
Forward(nitems, capsT) ==
    LET emb == << [i \in 1..nitems |-> FeatOf(i)] >> \o SubSeq(capsT, 1, Len(capsT) - 1)
    IN [t \in 1..Len(emb) |-> [i \in 1..nitems |-> [u \in 1..t |-> emb[u][i]]]]

\* x.reshape(-1, ...) of a two-dimensional tensor: its rows one after the
\* other (row-major order).
RECURSIVE Flatten(_)
Flatten(m) == IF m = <<>> THEN <<>> ELSE Head(m) \o Flatten(Tail(m))

\* The (logit row, target) pairs of
\* criterion(outputs.reshape(-1, V), caps.reshape(-1)); the target carries
\* its place in caps.
LossPairs(outs, cp) ==
    LET rows == Flatten(outs)
        tgts == Flatten([i \in 1..Len(cp) |->
                    [t \in 1..Len(cp[i]) |-> [b |-> i, t |-> t, tok |-> cp[i][t]]]])
    IN [p \in 1..Len(rows) |-> [logits |-> rows[p], target |-> tgts[p]]]

----------------------------------------------------------------------------
(* Actions of the beam search *)

\* No search has been started.
BeamIdle ==
    /\ pc = "idle"
    /\ greedy = FALSE
    /\ beam = 0
    /\ max_len = 0
    /\ it = 0
    /\ broke = FALSE
    /\ seqs = <<>>
    /\ parents = <<>>
    /\ finished = <<>>
    /\ cand = <<>>
    /\ result = <<>>

\* No Vocabulary has been constructed.
VocabNone ==
    /\ freq_threshold = 0
    /\ stoi = <<>>
    /\ itos = <<>>
    /\ vpc = "idle"
    /\ freqs = <<>>
    /\ nsents = 0
    /\ nbuilds = 0
    /\ buildLimit = 0
    /\ numText = <<>>
    /\ numOut = <<>>
    /\ numCalled = FALSE
    /\ numRaised = FALSE

\* No FlickrDataset has been constructed.
DatasetNone ==
    /\ dsState = "new"
    /\ dsErr = ""
    /\ dsTrace = <<>>
    /\ dsData = <<>>
    /\ dsHasData = FALSE
    /\ dsHasVocab = FALSE

\* No training step has run.
TrainNone ==
    /\ batch = <<>>
    /\ caps = <<>>
    /\ outputs = <<>>
    /\ lossPairs = <<>>
    /\ trained = FALSE

\* A decoder of the family, no search started.
InitBeam ==
    /\ lm \in Decoders
    /\ BeamIdle
    /\ VocabNone
    /\ fsDir = FALSE /\ fsFile = FALSE /\ fsLines = <<>>
    /\ DatasetNone
    /\ TrainNone

\* Lines 178-179 with the given arguments.
Enter(flag, b, m) ==
    /\ pc = "idle"
    /\ pc' = "loop"
    /\ greedy' = flag
    /\ beam' = b
    /\ max_len' = m
    /\ it' = 0
    /\ broke' = FALSE
    /\ seqs' = << [sc |-> 0, seq |-> <<>>, st |-> <<>>, inp |-> FEATS] >>
    /\ parents' = <<>>
    /\ finished' = <<>>
    /\ cand' = <<>>
    /\ result' = <<>>
    /\ UNCHANGED <<lm, vocabVars, dsVars, trainVars>>

\* dec.beam_search(feats, vocab, beam, max_len) called directly.
BeamSearchCall ==
    \E b \in 1..MaxBeam, m \in 1..MaxLen : Enter(FALSE, b, m)

\* generate_caption(img, beam=useBeam, beam_size=bs): max_len is the default.
GenerateCaption ==
    \E useBeam \in BOOLEAN, bs \in 1..MaxBeam :
        Enter(~useBeam, GenerateCaptionWidth(useBeam, bs), MaxLen)

\* One iteration of `for _ in range(max_len)` (lines 181-191) in which no
\* self.lstm call raises.
BeamStep ==
    /\ pc = "loop"
    /\ it < max_len
    /\ Raising(seqs) = {}
    /\ \E idxs \in TopKChoices(lm, seqs, beam) :
          LET c == Candidates(lm, seqs, idxs, beam)
              s == Truncate(SortedByScore(c), beam)
          IN /\ cand' = c
             /\ finished' = MoveFinished(finished, seqs)
             /\ seqs' = s
             /\ broke' = ShouldBreak(s)
             /\ pc' = IF ShouldBreak(s) THEN "exit" ELSE "loop"
    /\ parents' = seqs
    /\ it' = it + 1
    /\ UNCHANGED <<lm, greedy, beam, max_len, result>>
    /\ UNCHANGED <<vocabVars, dsVars, trainVars>>

\* An iteration in which self.lstm(inp, st) raises RuntimeError (line 185):
\* the hypotheses before the one it raises on have been dealt with, seqs is
\* not reassigned, and beam_search is left by the exception without a
\* result.
BeamStepRaises ==
    /\ pc = "loop"
    /\ it < max_len
    /\ Raising(seqs) # {}
    /\ \E idxs \in TopKChoices(lm, BeforeRaise(seqs), beam) :
          cand' = Candidates(lm, BeforeRaise(seqs), idxs, beam)
    /\ finished' = MoveFinished(finished, BeforeRaise(seqs))
    /\ parents' = seqs
    /\ pc' = "raised"
    /\ UNCHANGED <<lm, greedy, beam, max_len, it, broke, seqs, result>>
    /\ UNCHANGED <<vocabVars, dsVars, trainVars>>

\* Lines 192-193, after the loop ended or was left.
BeamReturn ==
    /\ \/ pc = "loop" /\ it = max_len
       \/ pc = "exit"
    /\ finished' = FinalPool(finished, seqs)
    /\ result' = MaxByScore(finished')
    /\ pc' = "done"
    /\ UNCHANGED <<lm, greedy, beam, max_len, it, broke, seqs, parents, cand>>
    /\ UNCHANGED <<vocabVars, dsVars, trainVars>>

NextBeam == BeamSearchCall \/ GenerateCaption \/ BeamStep \/ BeamStepRaises \/ BeamReturn

SpecBeam == InitBeam /\ [][NextBeam]_vars

----------------------------------------------------------------------------
(* Actions of the Vocabulary *)

\* One decoder stands for all where the decoder plays no part.
NoDecoder == lm = [i \in Inputs |-> [t \in Tokens |-> 0 - 1]]

\* Vocabulary(freq_threshold), on which at most n build calls are made.
VocabNew(n) ==
    /\ NoDecoder
    /\ BeamIdle
    /\ freq_threshold \in 1..MaxThreshold
    /\ stoi = InitStoi
    /\ itos = InitItos
    /\ vpc = "idle"
    /\ freqs = <<>>
    /\ nsents = 0
    /\ nbuilds = 0
    /\ buildLimit = n
    /\ numText = <<>>
    /\ numOut = <<>>
    /\ numCalled = FALSE
    /\ numRaised = FALSE
    /\ fsDir = FALSE /\ fsFile = FALSE /\ fsLines = <<>>
    /\ DatasetNone
    /\ TrainNone

\* A Vocabulary any caller may build repeatedly.
InitVocab == VocabNew(MaxBuilds)

\* A Vocabulary built as the program builds it: once, by
\* FlickrDataset.__init__ (line 124).
InitNumericalize == VocabNew(1)

\* build is called: `freqs = Counter()`. The list an earlier numericalize
\* call returned is no longer looked at.
BuildEnter ==
    /\ vpc = "idle"
    /\ nbuilds < buildLimit
    /\ vpc' = "count"
    /\ freqs' = <<>>
    /\ nsents' = 0
    /\ nbuilds' = nbuilds + 1
    /\ numText' = <<>> /\ numOut' = <<>> /\ numCalled' = FALSE /\ numRaised' = FALSE
    /\ UNCHANGED <<freq_threshold, stoi, itos, buildLimit>>
    /\ UNCHANGED <<beamVars, dsVars, trainVars>>

\* One iteration of `for s in sents: freqs.update(self.tokenize(s))`.
BuildCount ==
    /\ vpc = "count"
    /\ nsents < MaxSents
    /\ \E s \in Texts : freqs' = CounterUpdate(freqs, Tokenize(s))
    /\ nsents' = nsents + 1
    /\ UNCHANGED <<freq_threshold, stoi, itos, vpc, nbuilds, buildLimit>>
    /\ UNCHANGED <<numText, numOut, numCalled, numRaised>>
    /\ UNCHANGED <<beamVars, dsVars, trainVars>>

\* sents is exhausted: `idx=4` and the loop over freqs; build returns and its
\* Counter is gone.
BuildAssign ==
    /\ vpc = "count"
    /\ stoi' = Assign(stoi, itos, freq_threshold, freqs).stoi
    /\ itos' = Assign(stoi, itos, freq_threshold, freqs).itos
    /\ vpc' = "idle"
    /\ freqs' = <<>>
    /\ nsents' = 0
    /\ UNCHANGED <<freq_threshold, nbuilds, buildLimit, numText, numOut, numCalled, numRaised>>
    /\ UNCHANGED <<beamVars, dsVars, trainVars>>

\* numericalize(text), one call between two builds.
NumericalizeCall ==
    /\ vpc = "idle"
    /\ ~numCalled
    /\ \E text \in Texts :
          /\ numText' = text
          /\ numRaised' = NumericalizeRaises(stoi, text)
          /\ numOut' = IF NumericalizeRaises(stoi, text) THEN <<>> ELSE Numericalize(stoi, text)
    /\ numCalled' = TRUE
    /\ UNCHANGED <<freq_threshold, stoi, itos, vpc, freqs, nsents, nbuilds, buildLimit>>
    /\ UNCHANGED <<beamVars, dsVars, trainVars>>

NextVocab == BuildEnter \/ BuildCount \/ BuildAssign

SpecVocab == InitVocab /\ [][NextVocab]_vars

NextNumericalize == BuildEnter \/ BuildCount \/ BuildAssign \/ NumericalizeCall

SpecNumericalize == InitNumericalize /\ [][NextNumericalize]_vars

----------------------------------------------------------------------------
(* Actions of the FlickrDataset constructor *)

\* The file system before FlickrDataset(img_dir, captions_file) is called.
InitDataset ==
    /\ NoDecoder
    /\ BeamIdle
    /\ VocabNone
    /\ fsDir \in BOOLEAN
    /\ fsFile \in BOOLEAN
    /\ fsLines \in Files
    /\ DatasetNone
    /\ TrainNone

\* FlickrDataset(img_dir, captions_file, transform, freq_threshold)
FlickrDatasetInit ==
    /\ dsState = "new"
    /\ \E thr \in 1..MaxThreshold :
          LET r == DatasetInit(fsDir, fsFile, fsLines, thr)
          IN /\ dsState' = IF r.err = "" THEN "ok" ELSE "raised"
             /\ dsErr' = r.err
             /\ dsTrace' = r.trace
             /\ dsData' = r.data
             /\ dsHasData' = r.hasData
             /\ dsHasVocab' = r.hasVocab
             /\ stoi' = r.stoi
             /\ itos' = r.itos
             /\ freq_threshold' = IF r.hasVocab THEN thr ELSE 0
    /\ UNCHANGED <<fsDir, fsFile, fsLines>>
    /\ UNCHANGED <<vpc, freqs, nsents, nbuilds, buildLimit, numText, numOut, numCalled, numRaised>>
    /\ UNCHANGED <<beamVars, trainVars>>

NextDataset == FlickrDatasetInit

SpecDataset == InitDataset /\ [][NextDataset]_vars

----------------------------------------------------------------------------
(* Actions of the training step *)

\* A batch of captions drawn by the DataLoader.
InitTrain ==
    /\ NoDecoder
    /\ BeamIdle
    /\ VocabNone
    /\ fsDir = FALSE /\ fsFile = FALSE /\ fsLines = <<>>
    /\ DatasetNone
    /\ batch \in Batches
    /\ caps = <<>>
    /\ outputs = <<>>
    /\ lossPairs = <<>>
    /\ trained = FALSE

\* One iteration of `for imgs,caps in dl` up to the loss (lines 224-228).
TrainStep ==
    /\ ~trained
    /\ LET cp == PadSequence(batch, PAD)
           outs == Forward(Len(cp), Transpose(cp))
       IN /\ caps' = cp
          /\ outputs' = outs
          /\ lossPairs' = LossPairs(outs, cp)
    /\ trained' = TRUE
    /\ UNCHANGED batch
    /\ UNCHANGED <<beamVars, vocabVars, dsVars>>

NextTrain == TrainStep

SpecTrain == InitTrain /\ [][NextTrain]_vars

----------------------------------------------------------------------------
(* Properties of the beam search *)

\* <EOS> is the last token of the sequence.
LastIsEos(s) == Len(s) > 0 /\ s[Len(s)] = EOS

\* <EOS> occurs in the sequence at most as its last token.
EosOnlyLast(s) == \A i \in 1..Len(s) : s[i] = EOS => i = Len(s)

\* How often a token sequence occurs in a list of hypotheses.
Count(list, s) == Cardinality({ j \in 1..Len(list) : list[j].seq = s })

\* The search has been entered.
Started == pc # "idle"

\* At least one decoding step has been run to its end.
Stepped == Started /\ it >= 1

\* The search has ended, by returning or by an exception.
Stopped == pc \in {"done", "raised"}

\* The finished hypotheses that end in <EOS>, once the search has returned.
EosFinished == { j \in 1..Len(finished) : LastIsEos(finished[j].seq) }

\* C1: a search returns; once a hypothesis has finished, the result is the
\* highest-scoring EOS-terminated sequence, and an active sequence is
\* returned only when no hypothesis has finished.
C1_FinishedPreferred ==
    /\ Stopped => pc = "done"
    /\ (pc = "done" /\ EosFinished # {}) =>
          /\ LastIsEos(result)
          /\ \E j \in EosFinished :
                /\ finished[j].seq = result
                /\ \A i \in EosFinished : finished[i].sc <= finished[j].sc

\* C2: every decoding step ends with seqs holding at most beam hypotheses,
\* the highest-scoring candidates of that step: min(beam, number of
\* candidates) of them, each a candidate, and no discarded candidate scores
\* strictly higher than a retained one.
C2_TopKRetained ==
    /\ pc # "raised"
    /\ Stepped =>
          /\ Len(seqs) <= beam
          /\ Len(seqs) = (IF Len(cand) < beam THEN Len(cand) ELSE beam)
          /\ \A j \in 1..Len(seqs) : \E i \in 1..Len(cand) : cand[i] = seqs[j]
          /\ \A i \in 1..Len(cand) :
                (\A j \in 1..Len(seqs) : seqs[j] # cand[i]) =>
                    \A j \in 1..Len(seqs) : cand[i].sc <= seqs[j].sc

\* C3: a retained hypothesis that ends in <EOS> is not expanded, and when
\* the search returns it is in the finished set exactly once: a step that
\* runs to its end records it once and line 192 records the ones the last
\* step retained; <EOS> occurs in a hypothesis only as its last token.
C3_EosMovedOnce ==
    /\ [](/\ \A j \in 1..Len(seqs) : EosOnlyLast(seqs[j].seq)
          /\ \A j \in 1..Len(cand) : EosOnlyLast(cand[j].seq)
          /\ \A j \in 1..Len(finished) : EosOnlyLast(finished[j].seq)
          /\ \A j \in 1..Len(finished) : Count(finished, finished[j].seq) = 1
          /\ pc = "done" =>
                /\ \A j \in 1..Len(seqs) :
                      LastIsEos(seqs[j].seq) => Count(finished, seqs[j].seq) = 1
                /\ \A j \in 1..Len(parents) :
                      LastIsEos(parents[j].seq) => Count(finished, parents[j].seq) = 1)
    /\ [][ /\ \A j \in 1..Len(seqs) :
                LastIsEos(seqs[j].seq) =>
                    /\ pc' # "raised" => Count(finished', seqs[j].seq) = 1
                    /\ \A i \in 1..Len(cand') :
                          Len(cand'[i].seq) > Len(seqs[j].seq) =>
                              SubSeq(cand'[i].seq, 1, Len(seqs[j].seq)) # seqs[j].seq
           /\ \A j \in 1..Len(finished) :
                Count(finished', finished[j].seq) = 1 ]_vars

\* C3 witness: the search returned after a step that found a hypothesis
\* ending in <EOS> in the beam, did not expand it and moved it to finished.
C3_Witness ==
    /\ pc = "done"
    /\ it >= 2
    /\ cand = <<>>
    /\ \E j \in 1..Len(parents) :
          LastIsEos(parents[j].seq) /\ Count(finished, parents[j].seq) = 1

\* C4: the search stops after at most max_len decoding steps, and it stops
\* before max_len steps have run exactly when a step finds no active
\* hypothesis, every hypothesis retained by the previous step having ended
\* in <EOS>; after such an early stop the beam is empty and the result comes
\* from the finished set.
C4_EarlyStop ==
    /\ it <= max_len
    /\ (Stopped /\ ~broke) => it = max_len
    /\ Stepped => (broke <=> \A j \in 1..Len(parents) : LastIsEos(parents[j].seq))
    /\ (Started /\ broke) => seqs = <<>>
    /\ (Stopped /\ broke) =>
          /\ pc = "done"
          /\ LastIsEos(result)
          /\ \E j \in 1..Len(finished) : finished[j].seq = result

\* The hypotheses a step expands, in order.
IsLive(h) == ~LastIsEos(h.seq)
Live == SelectSeq(parents, IsLive)

\* The row the decoder outputs for a hypothesis.
RowOf(h) == lm[h.inp]

\* C5: every decoding step yields, for every live hypothesis of the beam it
\* starts from, exactly beam candidates, each the parent's sequence extended
\* by one of the parent's beam highest-probability next tokens (all
\* different), with score the parent's score plus that token's
\* log-probability; after step t every retained hypothesis has exactly t
\* tokens.
C5_Expansion ==
    /\ pc # "raised"
    /\ Started => \A j \in 1..Len(seqs) : Len(seqs[j].seq) = it
    /\ Stepped =>
          /\ Len(cand) = beam * Len(Live)
          /\ \A n \in 1..Len(Live) :
                LET h == Live[n]
                    kids == SubSeq(cand, (n - 1) * beam + 1, n * beam)
                IN /\ \A j \in 1..beam :
                         \E t \in Tokens :
                            /\ kids[j].seq = Append(h.seq, t)
                            /\ kids[j].sc = h.sc + RowOf(h)[t]
                            /\ \A u \in Tokens :
                                  (\A i \in 1..beam : kids[i].seq # Append(h.seq, u)) =>
                                      RowOf(h)[u] <= RowOf(h)[t]
                   /\ \A i, j \in 1..beam : i # j => kids[i].seq # kids[j].seq

\* The most probable next tokens after the sequence g.
BestNext(g) ==
    { t \in Tokens :
        \A u \in Tokens :
            lm[IF g = <<>> THEN FEATS ELSE g[Len(g)]][u]
                <= lm[IF g = <<>> THEN FEATS ELSE g[Len(g)]][t] }

\* Greedy decoding from g with at most n tokens: a most probable next token
\* is appended until the sequence ends in <EOS> or has n tokens. All the
\* sequences it may produce (a tie leaves the choice open).
RECURSIVE GreedyDecode(_, _)
GreedyDecode(g, n) ==
    IF LastIsEos(g) \/ Len(g) >= n THEN {g}
    ELSE UNION { GreedyDecode(Append(g, t), n) : t \in BestNext(g) }

\* C10: generate_caption with beam=False searches with width 1, and that
\* search is greedy decoding: it returns a sequence obtained by taking a
\* most probable next token at every step, stopping right after the first
\* <EOS> or after max_len tokens.
C10_GreedyEquivalence ==
    /\ greedy => beam = 1 /\ Len(seqs) <= 1
    /\ (greedy /\ Stopped) =>
          /\ pc = "done"
          /\ result \in GreedyDecode(<<>>, max_len)

----------------------------------------------------------------------------
(* Properties of the FlickrDataset constructor *)

\* The calls the constructor made.
Called(name) == \E i \in 1..Len(dsTrace) : dsTrace[i] = name

\* C6: when the image directory or the captions file is missing, the
\* constructor raises, and it does so before the captions file is opened and
\* before a Vocabulary is created or built: neither data nor vocab is set.
C6_MissingPathRaises ==
    (dsState # "new" /\ (~fsDir \/ ~fsFile)) =>
        /\ dsState = "raised"
        /\ dsErr # ""
        /\ ~Called("open")
        /\ ~Called("Vocabulary")
        /\ ~Called("build")
        /\ ~dsHasData
        /\ ~dsHasVocab

\* The directory exists, the captions file does not, and the constructor
\* has stopped at the second check.
C6_Witness ==
    /\ dsState = "raised"
    /\ fsDir
    /\ ~fsFile
    /\ dsErr = "AssertionError"
    /\ dsTrace = <<"isdir", "isfile">>

----------------------------------------------------------------------------
(* Properties of Vocabulary *)

\* The positions of a text where a whitespace-separated word starts.
WordStarts(text) ==
    { i \in 1..Len(text) : ~IsSpace(text[i]) /\ (i = 1 \/ IsSpace(text[i - 1])) }

\* The position where the word starting at s ends.
WordEnd(text, s) ==
    CHOOSE e \in s..Len(text) :
        /\ \A j \in s..e : ~IsSpace(text[j])
        /\ (e = Len(text) \/ IsSpace(text[e + 1]))

\* The position where the k-th word starts.
KthStart(text, k) ==
    CHOOSE s \in WordStarts(text) :
        Cardinality({ x \in WordStarts(text) : x < s }) = k - 1

\* The k-th whitespace-separated word of a text, lowercased.
LoweredWord(text, k) ==
    Lower(SubSeq(text, KthStart(text, k), WordEnd(text, KthStart(text, k))))

\* What a numericalize call returned agrees with the words of its text.
NumericalizeAgrees ==
    numCalled =>
        /\ ~numRaised
        /\ Len(numOut) = Cardinality(WordStarts(numText))
        /\ \A k \in 1..Len(numOut) :
              LET w == LoweredWord(numText, k)
              IN numOut[k] = IF w \in DOMAIN stoi THEN stoi[w] ELSE UNK

\* The loop over freqs left out every token counted fewer than
\* freq_threshold times that stoi did not already hold.
RareLeftOut ==
    (vpc = "count" /\ vpc' = "idle") =>
        \A i \in 1..Len(freqs) :
            (freqs[i].n < freq_threshold /\ freqs[i].tok \notin DOMAIN stoi)
                => freqs[i].tok \notin DOMAIN stoi'

\* C7: numericalize never raises; it returns one index per
\* whitespace-separated lowercased token of the text, in order: the token's
\* own index when stoi holds the token, and the <UNK> index 3 otherwise, which
\* is the case of a token build never saw or counted fewer than
\* freq_threshold times.
C7_NumericalizeTotal == []NumericalizeAgrees /\ [][RareLeftOut]_vars

\* A text with an uppercase word was numericalized to a built index followed
\* by the <UNK> index.
C7_Witness ==
    /\ numCalled
    /\ \E i \in 1..Len(numText) : numText[i] = "B"
    /\ Len(numOut) = 2
    /\ numOut[1] >= 4
    /\ numOut[2] = UNK

\* C9: after any sequence of build calls stoi and itos are inverse mappings,
\* the special tokens keep the indices 0, 1, 2, 3, the assigned indices are
\* exactly 0 .. len(stoi)-1, and len(stoi) is larger than every index
\* numericalize can return.
C9_IndicesDense ==
    vpc = "idle" =>
        /\ \A t \in DOMAIN stoi : stoi[t] \in DOMAIN itos /\ itos[stoi[t]] = t
        /\ \A i \in DOMAIN itos : itos[i] \in DOMAIN stoi /\ stoi[itos[i]] = i
        /\ stoi[PadTok] = PAD
        /\ stoi[SosTok] = SOS
        /\ stoi[EosTok] = EOS
        /\ stoi[UnkTok] = UNK
        /\ { stoi[t] : t \in DOMAIN stoi } = 0..(Cardinality(DOMAIN stoi) - 1)
        /\ \A text \in Texts :
              \A k \in 1..Len(Numericalize(stoi, text)) :
                  Numericalize(stoi, text)[k] < Cardinality(DOMAIN stoi)

----------------------------------------------------------------------------
(* Properties of the training step *)

\* C8: every logit row of outputs.reshape(-1, V) is paired with the target
\* of its own batch item and time step: the row for (t, b) meets caps[b][t].
C8_LossAligned ==
    trained =>
        \A p \in 1..Len(lossPairs) :
            LET lg == lossPairs[p].logits
                tg == lossPairs[p].target
            IN /\ tg.b = 0 - lg[1]
               /\ tg.t = Len(lg)
               /\ tg.tok = caps[tg.b][tg.t]

====
